---- MODULE Spec2Model ----
(***************************************************************************)
(* The forwarding session of src/main.go: runTunnel, setupSignalHandler,   *)
(* startTunnel (accept goroutine and cancellation goroutine),              *)
(* handleConnection and copyData, as goroutines that interleave.           *)
(*                                                                         *)
(* Handlers are interchangeable (handleConnection holds no identity of its *)
(* own), so the live handlers are kept as a bag of per-connection records. *)
(* The registry `conns` (a channel of capacity 10) is the sub-bag of       *)
(* records whose reg is "queued"; its FIFO order is not kept, since the    *)
(* only receiver closes whatever it receives.                              *)
(*                                                                         *)
(* The bytes of a pair are followed only in CopySpec, where io.Copy is a   *)
(* Read of the source into a buffer and a Write of the buffer to the       *)
(* destination; in the other specifications a copy is only its end.        *)
(***************************************************************************)
EXTENDS Naturals, Sequences, FiniteSets, Bags, TLC

\* Most local connections a run of the general specification accepts.
MaxConns == 2
\* Most connections that have completed the TCP handshake and wait in Accept.
MaxBacklog == 1
\* Most transient Accept errors logged in a run.
MaxAcceptErrs == 1
\* Most local connections a run of the listening specifications accepts:
\* two more than the registry holds.
MaxListenConns == 12
\* Most local connections a run of the session specification accepts (the
\* readiness probe's own connection counts).
MaxSessionConns == 1
\* Most bytes each endpoint of a pair writes in a run of the copy specification.
MaxBytes == 2

\* make(chan net.Conn, 10)
RegistryCap == 10
\* make(chan bool, 2)
DoneCap == 2
\* for i := 0; i < 5; i++
ProbeAttempts == 5

\* envConfig.OpenSearchHost of the environments createNewConfig writes.
Hosts == {"staging", "production"}

VARIABLES
    proc,        \* the process: "running", "exited" (main returned), "fatal" (log.Fatalf), "panicked"
    mainPc,      \* runTunnel's position
    probes,      \* waitForTunnelReady's i (0 outside the loop)
    remoteHost,  \* the remoteHost argument of startTunnel
    client,      \* the ssh client: "none", "open", "failed" (transport lost), "closed"
    clientCloses,\* bag of the goroutines that have called client.Close()
    ctxDone,     \* ctx.Done() is closed
    cancels,     \* calls of cancel()
    sigPc,       \* the signal goroutine's position
    listener,    \* "none", "open", "closed"
    listenerCloses, \* calls of listener.Close()
    accPc,       \* the accept goroutine's position
    acceptErrs,  \* "Error accepting connection" lines logged
    drainPc,     \* the cancellation goroutine's position
    connsClosed, \* close(conns) has run
    backlog,     \* connections waiting in the listener's queue
    h,           \* bag of handler records, one per accepted connection
    dialed       \* the hosts client.Dial was asked for

vars == <<proc, mainPc, probes, remoteHost, client, clientCloses, ctxDone, cancels,
          sigPc, listener, listenerCloses, accPc, acceptErrs, drainPc, connsClosed,
          backlog, h, dialed>>

mainVars == <<mainPc, probes>>
accVars == <<accPc, acceptErrs>>
connVars == <<backlog, h, dialed>>

----------------------------------------------------------------------------
(* Handler records *)

\* The two copyData goroutines of a pair, by direction.
CopyDirs == {"l2r", "r2l"}

\* The two connections of a pair, named by the peer at the other end.
Ends == {"local", "remote"}

\* Mutant: both copyData goroutines are given localConn as their src.
CopySrc_alwaysLocal(dir) == "local"

\* go copyData(remoteConn, localConn, done): src of local->remote is localConn;
\* go copyData(localConn, remoteConn, done): src of remote->local is remoteConn.
CopySrc(dir) == IF dir = "l2r" THEN "local" ELSE "remote"

CopyDst(dir) == IF dir = "l2r" THEN "remote" ELSE "local"

\* The record go handleConnection(client, conn, ...) starts from. Of each
\* connection: sent is what its peer has written so far, unread what of it no Read
\* has returned yet, written what the program has written to it; buf is io.Copy's
\* buffer of each direction.
NewConn ==
    [pc |-> "register", reg |-> "no", dials |-> 0, localCloses |-> 0,
     remoteConn |-> "none", l2r |-> "none", r2l |-> "none", done |-> 0,
     sent |-> [e \in Ends |-> << >>], unread |-> [e \in Ends |-> << >>],
     written |-> [e \in Ends |-> << >>], buf |-> [d \in CopyDirs |-> << >>]]

Conns == BagToSet(h)

Replace(c, d) == (h (-) SetToBag({c})) (+) SetToBag({d})

\* Number of records of bag b that lie in S.
CountIn(b, S) == BagCardinality([c \in (S \cap BagToSet(b)) |-> b[c]])

Accepted == BagCardinality(h)

IsQueued(c) == c.reg = "queued"

\* len(conns)
RegistryLen == CountIn(h, {c \in Conns : IsQueued(c)})

LocalClosed(c) == c.localCloses > 0

\* conn.Close() on a net.Conn: the first call closes, later calls return an error.
CloseLocal(c) == [c EXCEPT !.localCloses = @ + 1]

CloseRemote(c) == [c EXCEPT !.remoteConn = "closed"]

----------------------------------------------------------------------------
Init ==
    /\ proc = "running"
    /\ mainPc = "sshDial"
    /\ probes = 0
    /\ remoteHost \in Hosts
    /\ client = "none"
    /\ clientCloses = EmptyBag
    /\ ctxDone = FALSE
    /\ cancels = 0
    /\ sigPc = "none"
    /\ listener = "none"
    /\ listenerCloses = 0
    /\ accPc = "none"
    /\ acceptErrs = 0
    /\ drainPc = "none"
    /\ connsClosed = FALSE
    /\ backlog = 0
    /\ h = EmptyBag
    /\ dialed = {}

----------------------------------------------------------------------------
(* runTunnel: the main goroutine *)

\* ssh.Dial; on success defer client.Close(), context.WithCancel, defer cancel(),
\* setupSignalHandler (signal.Notify and its goroutine). On failure log.Fatalf.
runTunnel_sshDial ==
    /\ proc = "running" /\ mainPc = "sshDial"
    /\ \/ /\ client' = "open"
          /\ sigPc' = "wait"
          /\ mainPc' = "listen"
          /\ proc' = proc
       \/ /\ proc' = "fatal"
          /\ UNCHANGED <<client, sigPc, mainPc>>
    /\ UNCHANGED <<probes, remoteHost, clientCloses, ctxDone, cancels, listener,
                   listenerCloses, accVars, drainPc, connsClosed, connVars>>

\* Mutant: a bind error is swallowed; startTunnel goes on to the readiness probe
\* without a listener.
startTunnel_listen_ignoresBindError ==
    /\ proc = "running" /\ mainPc = "listen"
    /\ \/ /\ listener' = "open"
          /\ accPc' = "accept"
          /\ drainPc' = "waitCtx"
       \/ UNCHANGED <<listener, accPc, drainPc>>
    /\ mainPc' = "probe"
    /\ UNCHANGED <<proc, probes, remoteHost, client, clientCloses, ctxDone, cancels, sigPc,
                   listenerCloses, acceptErrs, connsClosed, connVars>>

\* startTunnel up to the go statement: net.Listen, then the accept goroutine, which
\* defers listener.Close(), makes conns, defers close(conns) and starts the
\* cancellation goroutine. A bind error is returned and runTunnel calls log.Fatalf.
startTunnel_listen ==
    /\ proc = "running" /\ mainPc = "listen"
    /\ \/ /\ listener' = "open"
          /\ accPc' = "accept"
          /\ drainPc' = "waitCtx"
          /\ mainPc' = "probe"
          /\ proc' = proc
       \/ /\ proc' = "fatal"
          /\ UNCHANGED <<listener, accPc, drainPc, mainPc>>
    /\ UNCHANGED <<probes, remoteHost, client, clientCloses, ctxDone, cancels, sigPc,
                   listenerCloses, acceptErrs, connsClosed, connVars>>

\* One net.DialTimeout of waitForTunnelReady that connects: the connection enters the
\* listener's queue, the probe closes its end and returns nil; runTunnel opens the
\* browser, prints "SSH tunnel established" and blocks on <-ctx.Done().
waitForTunnelReady_connected(limit) ==
    /\ proc = "running" /\ mainPc = "probe" /\ probes < ProbeAttempts
    /\ listener = "open"
    /\ backlog < MaxBacklog /\ BagCardinality(h) + backlog < limit
    /\ backlog' = backlog + 1
    /\ probes' = 0
    /\ mainPc' = "waitCtx"
    /\ UNCHANGED <<proc, remoteHost, client, clientCloses, ctxDone, cancels, sigPc,
                   listener, listenerCloses, accVars, drainPc, connsClosed, h, dialed>>

\* One net.DialTimeout that fails, and the 500ms sleep.
waitForTunnelReady_retry ==
    /\ proc = "running" /\ mainPc = "probe" /\ probes < ProbeAttempts
    /\ probes' = probes + 1
    /\ UNCHANGED <<proc, mainPc, remoteHost, client, clientCloses, ctxDone, cancels, sigPc,
                   listener, listenerCloses, accVars, drainPc, connsClosed, connVars>>

\* Mutant: the probe reports its failure and runTunnel ends with log.Fatalf.
waitForTunnelReady_giveUp_fails ==
    /\ proc = "running" /\ mainPc = "probe" /\ probes = ProbeAttempts
    /\ proc' = "fatal"
    /\ UNCHANGED <<mainVars, remoteHost, client, clientCloses, ctxDone, cancels, sigPc,
                   listener, listenerCloses, accVars, drainPc, connsClosed, connVars>>

\* The loop ran out: return nil all the same.
waitForTunnelReady_giveUp ==
    /\ proc = "running" /\ mainPc = "probe" /\ probes = ProbeAttempts
    /\ probes' = 0
    /\ mainPc' = "waitCtx"
    /\ UNCHANGED <<proc, remoteHost, client, clientCloses, ctxDone, cancels, sigPc,
                   listener, listenerCloses, accVars, drainPc, connsClosed, connVars>>

\* <-ctx.Done() returns; "SSH tunnel closed" is printed.
runTunnel_ctxDone ==
    /\ proc = "running" /\ mainPc = "waitCtx"
    /\ ctxDone
    /\ mainPc' = "deferCancel"
    /\ UNCHANGED <<proc, probes, remoteHost, client, clientCloses, ctxDone, cancels, sigPc,
                   listener, listenerCloses, accVars, drainPc, connsClosed, connVars>>

\* The deferred cancel().
runTunnel_deferCancel ==
    /\ proc = "running" /\ mainPc = "deferCancel"
    /\ ctxDone' = TRUE
    /\ cancels' = cancels + 1
    /\ mainPc' = "deferClose"
    /\ UNCHANGED <<proc, probes, remoteHost, client, clientCloses, sigPc,
                   listener, listenerCloses, accVars, drainPc, connsClosed, connVars>>

\* The deferred client.Close(); runTunnel and main return and the process ends.
runTunnel_deferClose ==
    /\ proc = "running" /\ mainPc = "deferClose"
    /\ client' = "closed"
    /\ clientCloses' = clientCloses (+) SetToBag({"main"})
    /\ mainPc' = "returned"
    /\ proc' = "exited"
    /\ UNCHANGED <<probes, remoteHost, ctxDone, cancels, sigPc,
                   listener, listenerCloses, accVars, drainPc, connsClosed, connVars>>

----------------------------------------------------------------------------
(* setupSignalHandler's goroutine *)

\* os.Interrupt or SIGTERM is delivered on c.
Signal ==
    /\ proc = "running" /\ sigPc = "wait"
    /\ sigPc' = "cancel"
    /\ UNCHANGED <<proc, mainVars, remoteHost, client, clientCloses, ctxDone, cancels,
                   listener, listenerCloses, accVars, drainPc, connsClosed, connVars>>

\* cancel()
setupSignalHandler_cancel ==
    /\ proc = "running" /\ sigPc = "cancel"
    /\ ctxDone' = TRUE
    /\ cancels' = cancels + 1
    /\ sigPc' = "closeClient"
    /\ UNCHANGED <<proc, mainVars, remoteHost, client, clientCloses,
                   listener, listenerCloses, accVars, drainPc, connsClosed, connVars>>

\* client.Close()
setupSignalHandler_close ==
    /\ proc = "running" /\ sigPc = "closeClient"
    /\ client' = "closed"
    /\ clientCloses' = clientCloses (+) SetToBag({"signal"})
    /\ sigPc' = "done"
    /\ UNCHANGED <<proc, mainVars, remoteHost, ctxDone, cancels,
                   listener, listenerCloses, accVars, drainPc, connsClosed, connVars>>

\* The connection to the bastion is lost; nothing in the program watches for it.
TransportFail ==
    /\ proc = "running" /\ client = "open"
    /\ client' = "failed"
    /\ UNCHANGED <<proc, mainVars, remoteHost, clientCloses, ctxDone, cancels, sigPc,
                   listener, listenerCloses, accVars, drainPc, connsClosed, connVars>>

----------------------------------------------------------------------------
(* startTunnel's accept goroutine *)

\* A client completes a TCP connect to localhost:localPort.
Connect(limit) ==
    /\ proc = "running" /\ listener = "open"
    /\ backlog < MaxBacklog /\ BagCardinality(h) + backlog < limit
    /\ backlog' = backlog + 1
    /\ UNCHANGED <<proc, mainVars, remoteHost, client, clientCloses, ctxDone, cancels, sigPc,
                   listener, listenerCloses, accVars, drainPc, connsClosed, h, dialed>>

\* Mutant: the loop takes the next connection only once every handler it started
\* has registered, as if conns <- localConn ran in the loop itself.
acceptLoop_accept_waitsForHandler ==
    /\ proc = "running" /\ accPc = "accept"
    /\ listener = "open" /\ backlog > 0
    /\ \A c \in Conns : c.pc # "register"
    /\ backlog' = backlog - 1
    /\ h' = h (+) SetToBag({NewConn})
    /\ UNCHANGED <<proc, mainVars, remoteHost, client, clientCloses, ctxDone, cancels, sigPc,
                   listener, listenerCloses, accVars, drainPc, connsClosed, dialed>>

\* listener.Accept() returns a connection; go handleConnection(...).
acceptLoop_accept ==
    /\ proc = "running" /\ accPc = "accept"
    /\ listener = "open" /\ backlog > 0
    /\ backlog' = backlog - 1
    /\ h' = h (+) SetToBag({NewConn})
    /\ UNCHANGED <<proc, mainVars, remoteHost, client, clientCloses, ctxDone, cancels, sigPc,
                   listener, listenerCloses, accVars, drainPc, connsClosed, dialed>>

\* Mutant: the loop never looks at ctx.Err(); every error is logged and the loop
\* continues.
AcceptError_neverReturns ==
    accPc' = accPc /\ acceptErrs' = IF acceptErrs < MaxAcceptErrs THEN acceptErrs + 1 ELSE acceptErrs

\* What the loop does with an error of Accept: return when ctx.Err() != nil,
\* otherwise log and continue.
AcceptError ==
    IF ctxDone
    THEN accPc' = "closeConns" /\ acceptErrs' = acceptErrs
    ELSE accPc' = accPc /\ acceptErrs' = acceptErrs + 1

\* listener.Accept() fails because the listener is closed.
acceptLoop_closed ==
    /\ proc = "running" /\ accPc = "accept"
    /\ listener = "closed"
    /\ ctxDone \/ acceptErrs < MaxAcceptErrs
    /\ AcceptError
    /\ UNCHANGED <<proc, mainVars, remoteHost, client, clientCloses, ctxDone, cancels, sigPc,
                   listener, listenerCloses, drainPc, connsClosed, connVars>>

\* listener.Accept() fails on an open listener (a transient error).
acceptLoop_transient ==
    /\ proc = "running" /\ accPc = "accept"
    /\ listener = "open"
    /\ ctxDone \/ acceptErrs < MaxAcceptErrs
    /\ AcceptError
    /\ UNCHANGED <<proc, mainVars, remoteHost, client, clientCloses, ctxDone, cancels, sigPc,
                   listener, listenerCloses, drainPc, connsClosed, connVars>>

\* The deferred close(conns).
acceptLoop_closeConns ==
    /\ proc = "running" /\ accPc = "closeConns"
    /\ connsClosed' = TRUE
    /\ accPc' = "closeListener"
    /\ UNCHANGED <<proc, mainVars, remoteHost, client, clientCloses, ctxDone, cancels, sigPc,
                   listener, listenerCloses, acceptErrs, drainPc, connVars>>

\* Mutant: closing a listener that is already closed panics.
acceptLoop_closeListener_panics ==
    /\ proc = "running" /\ accPc = "closeListener"
    /\ IF listener = "closed"
       THEN /\ proc' = "panicked"
            /\ listenerCloses' = listenerCloses + 1
            /\ UNCHANGED <<listener, accPc, backlog>>
       ELSE /\ listener' = "closed"
            /\ listenerCloses' = listenerCloses + 1
            /\ backlog' = 0
            /\ accPc' = "done"
            /\ proc' = proc
    /\ UNCHANGED <<mainVars, remoteHost, client, clientCloses, ctxDone, cancels, sigPc,
                   acceptErrs, drainPc, connsClosed, h, dialed>>

\* The deferred listener.Close(). Closing the listener drops what waits in its queue.
acceptLoop_closeListener ==
    /\ proc = "running" /\ accPc = "closeListener"
    /\ listener' = "closed"
    /\ listenerCloses' = listenerCloses + 1
    /\ backlog' = 0
    /\ accPc' = "done"
    /\ UNCHANGED <<proc, mainVars, remoteHost, client, clientCloses, ctxDone, cancels, sigPc,
                   acceptErrs, drainPc, connsClosed, h, dialed>>

----------------------------------------------------------------------------
(* startTunnel's cancellation goroutine *)

\* <-ctx.Done(); listener.Close()
drain_closeListener ==
    /\ proc = "running" /\ drainPc = "waitCtx"
    /\ ctxDone
    /\ listener' = "closed"
    /\ listenerCloses' = listenerCloses + 1
    /\ backlog' = 0
    /\ drainPc' = "drain"
    /\ UNCHANGED <<proc, mainVars, remoteHost, client, clientCloses, ctxDone, cancels, sigPc,
                   accVars, connsClosed, h, dialed>>

\* The connection the drain has received, closed.
Drained(c) == CloseLocal([c EXCEPT !.reg = "drained"])

\* One round of for conn := range conns { conn.Close() }.
drain_conn(c) ==
    /\ proc = "running" /\ drainPc = "drain"
    /\ c.reg = "queued"
    /\ h' = Replace(c, Drained(c))
    /\ UNCHANGED <<proc, mainVars, remoteHost, client, clientCloses, ctxDone, cancels, sigPc,
                   listener, listenerCloses, accVars, drainPc, connsClosed, backlog, dialed>>

\* range conns ends: the channel is closed and empty.
drain_end ==
    /\ proc = "running" /\ drainPc = "drain"
    /\ connsClosed /\ RegistryLen = 0
    /\ drainPc' = "done"
    /\ UNCHANGED <<proc, mainVars, remoteHost, client, clientCloses, ctxDone, cancels, sigPc,
                   listener, listenerCloses, accVars, connsClosed, connVars>>

----------------------------------------------------------------------------
(* handleConnection and copyData *)

\* The handler after conns <- localConn.
Registered(c) == [c EXCEPT !.pc = "dial", !.reg = "queued"]

\* conns <- localConn: blocks while the channel is full, panics once it is closed.
handleConnection_send(c) ==
    /\ proc = "running" /\ c.pc = "register"
    /\ IF connsClosed
       THEN proc' = "panicked" /\ h' = h
       ELSE /\ RegistryLen < RegistryCap
            /\ h' = Replace(c, Registered(c))
            /\ proc' = proc
    /\ UNCHANGED <<mainVars, remoteHost, client, clientCloses, ctxDone, cancels, sigPc,
                   listener, listenerCloses, accVars, drainPc, connsClosed, backlog, dialed>>

\* The host client.Dial is asked for.
DialTarget == remoteHost

\* client.Dial succeeded: defer remoteConn.Close(), make done, start both copyData.
DialOk(c) ==
    [c EXCEPT !.pc = "wait", !.dials = @ + 1, !.remoteConn = "open",
              !.l2r = "run", !.r2l = "run"]

\* Mutant: the failed handler returns without closing its local connection.
DialFailedNoClose(c) == [c EXCEPT !.pc = "done", !.dials = @ + 1]

\* Mutant: a failed dial is tried again.
DialFailedRetry(c) == [c EXCEPT !.dials = @ + 1]

\* client.Dial failed: log, return, and the deferred localConn.Close().
DialFailed(c) == CloseLocal([c EXCEPT !.pc = "done", !.dials = @ + 1])

\* Mutant: a handler whose dial fails closes the ssh client.
handleConnection_dial_closesClient(c) ==
    /\ proc = "running" /\ c.pc = "dial"
    /\ \/ /\ client = "open" /\ h' = Replace(c, DialOk(c))
          /\ UNCHANGED <<client, clientCloses>>
       \/ /\ h' = Replace(c, DialFailed(c))
          /\ client' = "closed"
          /\ clientCloses' = clientCloses (+) SetToBag({"handleConnection"})
    /\ dialed' = dialed \cup {DialTarget}
    /\ UNCHANGED <<proc, mainVars, remoteHost, ctxDone, cancels, sigPc,
                   listener, listenerCloses, accVars, drainPc, connsClosed, backlog>>

\* client.Dial("tcp", remoteHost:remotePort) returns. It can succeed only on an open
\* transport.
handleConnection_dial(c) ==
    /\ proc = "running" /\ c.pc = "dial"
    /\ \/ client = "open" /\ h' = Replace(c, DialOk(c))
       \/ h' = Replace(c, DialFailed(c))
    /\ dialed' = dialed \cup {DialTarget}
    /\ UNCHANGED <<proc, mainVars, remoteHost, client, clientCloses, ctxDone, cancels, sigPc,
                   listener, listenerCloses, accVars, drainPc, connsClosed, backlog>>

\* The peer of connection e writes one more byte; the k-th byte a peer writes is k.
PeerWrite(c, e) ==
    [c EXCEPT !.sent[e] = Append(@, Len(@) + 1),
              !.unread[e] = Append(@, Len(c.sent[e]) + 1)]

\* The local client or the remote service writes to its side of an open pair.
EndpointWrite(c, e) ==
    /\ proc = "running" /\ c.pc = "wait"
    /\ Len(c.sent[e]) < MaxBytes
    /\ h' = Replace(c, PeerWrite(c, e))
    /\ UNCHANGED <<proc, mainVars, remoteHost, client, clientCloses, ctxDone, cancels, sigPc,
                   listener, listenerCloses, accVars, drainPc, connsClosed, backlog, dialed>>

\* src.Read(buf) inside io.Copy returned the first n unread bytes.
CopyRead(c, dir, n) ==
    [c EXCEPT !.buf[dir] = SubSeq(c.unread[CopySrc(dir)], 1, n),
              !.unread[CopySrc(dir)] = SubSeq(@, n + 1, Len(@))]

\* dst.Write(buf[0:nr]) inside io.Copy wrote the buffer.
CopyWrite(c, dir) ==
    [c EXCEPT !.written[CopyDst(dir)] = @ \o c.buf[dir],
              !.buf[dir] = << >>]

\* io.Copy(dst, src): one Read of src, while both connections are open.
ioCopy_read(c, dir, n) ==
    /\ proc = "running" /\ c.pc = "wait" /\ c[dir] = "run"
    /\ c.buf[dir] = << >>
    /\ n \in 1..Len(c.unread[CopySrc(dir)])
    /\ h' = Replace(c, CopyRead(c, dir, n))
    /\ UNCHANGED <<proc, mainVars, remoteHost, client, clientCloses, ctxDone, cancels, sigPc,
                   listener, listenerCloses, accVars, drainPc, connsClosed, backlog, dialed>>

\* io.Copy(dst, src): the Write to dst of what was read.
ioCopy_write(c, dir) ==
    /\ proc = "running" /\ c.pc = "wait" /\ c[dir] = "run"
    /\ c.buf[dir] # << >>
    /\ h' = Replace(c, CopyWrite(c, dir))
    /\ UNCHANGED <<proc, mainVars, remoteHost, client, clientCloses, ctxDone, cancels, sigPc,
                   listener, listenerCloses, accVars, drainPc, connsClosed, backlog, dialed>>

\* io.Copy has returned (EOF or error) and done <- true was sent.
CopyDone(c, dir) == [c EXCEPT ![dir] = "fin", !.done = @ + 1]

\* Mutant: done is unbuffered, so done <- true completes only into the handler's
\* receive.
copyData_unbuffered(c, dir) ==
    /\ proc = "running" /\ c[dir] = "run"
    /\ c.pc = "wait" /\ c.done = 0
    /\ h' = Replace(c, CopyDone(c, dir))
    /\ UNCHANGED <<proc, mainVars, remoteHost, client, clientCloses, ctxDone, cancels, sigPc,
                   listener, listenerCloses, accVars, drainPc, connsClosed, backlog, dialed>>

\* copyData: io.Copy returns, then done <- true (which blocks on a full channel).
copyData(c, dir) ==
    /\ proc = "running" /\ c[dir] = "run"
    /\ c.done < DoneCap
    /\ h' = Replace(c, CopyDone(c, dir))
    /\ UNCHANGED <<proc, mainVars, remoteHost, client, clientCloses, ctxDone, cancels, sigPc,
                   listener, listenerCloses, accVars, drainPc, connsClosed, backlog, dialed>>

\* Mutant: a handler that returns takes its connection out of the registry.
Returned_deregisters(c) ==
    CloseLocal(CloseRemote([c EXCEPT !.pc = "done", !.done = @ - 1, !.reg = "no"]))

\* <-done received, return: the deferred remoteConn.Close() and localConn.Close().
Returned(c) ==
    CloseLocal(CloseRemote([c EXCEPT !.pc = "done", !.done = @ - 1]))

\* Mutant: the handler waits for both copy directions before it returns.
handleConnection_return_waitBoth(c) ==
    /\ proc = "running" /\ c.pc = "wait"
    /\ c.done = DoneCap
    /\ h' = Replace(c, CloseLocal(CloseRemote([c EXCEPT !.pc = "done", !.done = 0])))
    /\ UNCHANGED <<proc, mainVars, remoteHost, client, clientCloses, ctxDone, cancels, sigPc,
                   listener, listenerCloses, accVars, drainPc, connsClosed, backlog, dialed>>

handleConnection_return(c) ==
    /\ proc = "running" /\ c.pc = "wait"
    /\ c.done > 0
    /\ h' = Replace(c, Returned(c))
    /\ UNCHANGED <<proc, mainVars, remoteHost, client, clientCloses, ctxDone, cancels, sigPc,
                   listener, listenerCloses, accVars, drainPc, connsClosed, backlog, dialed>>

----------------------------------------------------------------------------
Next ==
    \/ runTunnel_sshDial
    \/ startTunnel_listen
    \/ waitForTunnelReady_connected(MaxConns)
    \/ waitForTunnelReady_retry
    \/ waitForTunnelReady_giveUp
    \/ runTunnel_ctxDone
    \/ runTunnel_deferCancel
    \/ runTunnel_deferClose
    \/ Signal
    \/ setupSignalHandler_cancel
    \/ setupSignalHandler_close
    \/ TransportFail
    \/ Connect(MaxConns)
    \/ acceptLoop_accept
    \/ acceptLoop_closed
    \/ acceptLoop_transient
    \/ acceptLoop_closeConns
    \/ acceptLoop_closeListener
    \/ drain_closeListener
    \/ \E c \in Conns : drain_conn(c)
    \/ drain_end
    \/ \E c \in Conns : handleConnection_send(c)
    \/ \E c \in Conns : handleConnection_dial(c)
    \/ \E c \in Conns, dir \in CopyDirs : copyData(c, dir)
    \/ \E c \in Conns : handleConnection_return(c)

Spec == Init /\ [][Next]_vars

----------------------------------------------------------------------------
(* The session once it is Listening *)

\* The state runTunnel blocks in at <-ctx.Done(): the transport is open, the signal
\* goroutine waits, the listener is bound, the accept and cancellation goroutines
\* run, the readiness probe gave up without connecting.
InitListening ==
    /\ proc = "running"
    /\ mainPc = "waitCtx"
    /\ probes = 0
    /\ remoteHost \in Hosts
    /\ client = "open"
    /\ clientCloses = EmptyBag
    /\ ctxDone = FALSE
    /\ cancels = 0
    /\ sigPc = "wait"
    /\ listener = "open"
    /\ listenerCloses = 0
    /\ accPc = "accept"
    /\ acceptErrs = 0
    /\ drainPc = "waitCtx"
    /\ connsClosed = FALSE
    /\ backlog = 0
    /\ h = EmptyBag
    /\ dialed = {}

\* The steps of a session that no signal reaches, with at most `limit` connections.
NextListening(limit) ==
    \/ Connect(limit)
    \/ acceptLoop_accept
    \/ \E c \in Conns : handleConnection_send(c)
    \/ \E c \in Conns : handleConnection_dial(c)
    \/ \E c \in Conns, dir \in CopyDirs : copyData(c, dir)
    \/ \E c \in Conns : handleConnection_return(c)

NextRegistry == NextListening(MaxListenConns)

\* The Go scheduler runs every goroutine that can take a step; what clients, the
\* remote end and the operator do (Connect, the end of a copy, Signal) is not forced.
HandlerFairness ==
    /\ WF_vars(acceptLoop_accept)
    /\ WF_vars(\E c \in Conns : handleConnection_send(c))
    /\ WF_vars(\E c \in Conns : handleConnection_dial(c))
    /\ WF_vars(\E c \in Conns : handleConnection_return(c))

\* A listening session of the staging environment that fills the registry.
InitRegistry == InitListening /\ remoteHost = "staging"

RegistrySpec == InitRegistry /\ [][NextRegistry]_vars /\ HandlerFairness

NextPair == NextListening(MaxConns)

\* A listening session with a few connections, for what one pair does.
PairSpec == InitListening /\ [][NextPair]_vars /\ HandlerFairness

\* One pair of a listening session, its dial just succeeded: the handler waits on
\* done and both copyData goroutines run.
InitCopy ==
    /\ proc = "running"
    /\ mainPc = "waitCtx"
    /\ probes = 0
    /\ remoteHost \in Hosts
    /\ client = "open"
    /\ clientCloses = EmptyBag
    /\ ctxDone = FALSE
    /\ cancels = 0
    /\ sigPc = "wait"
    /\ listener = "open"
    /\ listenerCloses = 0
    /\ accPc = "accept"
    /\ acceptErrs = 0
    /\ drainPc = "waitCtx"
    /\ connsClosed = FALSE
    /\ backlog = 0
    /\ h = SetToBag({DialOk(Registered(NewConn))})
    /\ dialed = {DialTarget}

\* What the pair and its two peers do: the peers write, io.Copy moves the bytes, a
\* copy ends, the handler returns.
NextCopy ==
    \/ \E c \in Conns, e \in Ends : EndpointWrite(c, e)
    \/ \E c \in Conns, dir \in CopyDirs, n \in 1..MaxBytes : ioCopy_read(c, dir, n)
    \/ \E c \in Conns, dir \in CopyDirs : ioCopy_write(c, dir)
    \/ \E c \in Conns, dir \in CopyDirs : copyData(c, dir)
    \/ \E c \in Conns : handleConnection_return(c)

\* Each copyData goroutine and the handler run when they can: a Read with bytes
\* unread returns, a Write is made, a Read or Write on a connection the handler has
\* closed fails and io.Copy returns. When a copy between open connections ends is
\* up to the peers and is not forced.
CopyFairness ==
    /\ \A dir \in CopyDirs :
          /\ WF_vars(\E c \in Conns, n \in 1..MaxBytes : ioCopy_read(c, dir, n))
          /\ WF_vars(\E c \in Conns : ioCopy_write(c, dir))
          /\ WF_vars(\E c \in Conns : c.pc = "done" /\ copyData(c, dir))
    /\ WF_vars(\E c \in Conns : handleConnection_return(c))

CopySpec == InitCopy /\ [][NextCopy]_vars /\ CopyFairness

\* The steps each goroutine takes by itself once it can.
MainStep ==
    \/ runTunnel_sshDial
    \/ startTunnel_listen
    \/ waitForTunnelReady_retry
    \/ waitForTunnelReady_giveUp
    \/ runTunnel_ctxDone
    \/ runTunnel_deferCancel
    \/ runTunnel_deferClose

SignalStep == setupSignalHandler_cancel \/ setupSignalHandler_close

AcceptStep ==
    \/ acceptLoop_accept
    \/ acceptLoop_closed
    \/ acceptLoop_closeConns
    \/ acceptLoop_closeListener

DrainStep ==
    \/ drain_closeListener
    \/ \E c \in Conns : drain_conn(c)
    \/ drain_end

Fairness ==
    /\ WF_vars(MainStep)
    /\ WF_vars(SignalStep)
    /\ WF_vars(AcceptStep)
    /\ WF_vars(DrainStep)
    /\ WF_vars(\E c \in Conns : handleConnection_send(c))
    /\ WF_vars(\E c \in Conns : handleConnection_dial(c))
    /\ WF_vars(\E c \in Conns : handleConnection_return(c))

FairSpec == Init /\ [][Next]_vars /\ Fairness

\* The whole run from ssh.Dial to the end of the process, with few connections: for
\* what the main goroutine and the accept goroutine do.
NextSession ==
    \/ runTunnel_sshDial
    \/ startTunnel_listen
    \/ waitForTunnelReady_connected(MaxSessionConns)
    \/ waitForTunnelReady_retry
    \/ waitForTunnelReady_giveUp
    \/ runTunnel_ctxDone
    \/ runTunnel_deferCancel
    \/ runTunnel_deferClose
    \/ Signal
    \/ setupSignalHandler_cancel
    \/ setupSignalHandler_close
    \/ TransportFail
    \/ Connect(MaxSessionConns)
    \/ acceptLoop_accept
    \/ acceptLoop_closed
    \/ acceptLoop_transient
    \/ acceptLoop_closeConns
    \/ acceptLoop_closeListener
    \/ drain_closeListener
    \/ \E c \in Conns : drain_conn(c)
    \/ drain_end
    \/ \E c \in Conns : handleConnection_send(c)
    \/ \E c \in Conns : handleConnection_dial(c)
    \/ \E c \in Conns, dir \in CopyDirs : copyData(c, dir)
    \/ \E c \in Conns : handleConnection_return(c)

SessionSpec == Init /\ [][NextSession]_vars /\ Fairness

\* The goroutines of the teardown run when they can; runTunnel is not forced on, so
\* the process may go on running for as long as the teardown takes.
TeardownFairness ==
    /\ WF_vars(SignalStep)
    /\ WF_vars(AcceptStep)
    /\ WF_vars(DrainStep)
    /\ WF_vars(\E c \in Conns : handleConnection_send(c))
    /\ WF_vars(\E c \in Conns : handleConnection_dial(c))
    /\ WF_vars(\E c \in Conns : handleConnection_return(c))

\* The whole run with few connections, the main goroutine free to stay where it is.
TeardownSpec == Init /\ [][NextSession]_vars /\ TeardownFairness

----------------------------------------------------------------------------
(* Claims *)

\* Handlers of bag b inside client.Dial.
NumAtDial(b) == CountIn(b, {c \in BagToSet(b) : c.pc = "dial"})
\* Handlers of bag b whose dial has produced a remote connection.
NumWithRemote(b) == CountIn(b, {c \in BagToSet(b) : c.remoteConn # "none"})
Tracked(c) == c.reg # "no"

\* The teardown has run to its end: the signal goroutine, the accept goroutine and
\* the cancellation goroutine have all finished.
TeardownDone == sigPc = "done" /\ accPc = "done" /\ drainPc = "done"

\* C1: once cancellation was triggered, the local listener, every accepted local
\* connection and the ssh client end up closed. Stated on where a cancelled session
\* ends: when the teardown has run to its end, or a goroutine has crashed the
\* process, all of them have been closed.
C1_CancelClosesEverything ==
    (ctxDone /\ (TeardownDone \/ proc = "panicked")) =>
        /\ listener = "closed"
        /\ \A c \in Conns : LocalClosed(c)
        /\ client = "closed"

\* C2: in a session that is never cancelled, every accepted local connection
\* eventually has its remote dial issued, however many connections came before it.
C2_EveryAcceptedIsDialed ==
    (\E c \in Conns : c.dials = 0) ~> (\A c \in Conns : c.dials > 0)

\* C3: a step in which a dial fails (a handler leaves client.Dial and no remote
\* connection appears) closes that handler's local connection once, starts no
\* copyData for it, leaves every other record as it was, and changes neither the
\* listener, the context, the ssh client, the registry channel nor any goroutine.
C3_DialFailureContained ==
    [][ ( /\ NumAtDial(h') < NumAtDial(h)
          /\ NumWithRemote(h') = NumWithRemote(h) )
        => /\ \E c \in Conns :
                /\ c.pc = "dial"
                /\ \E d \in BagToSet(h') :
                      /\ h' = Replace(c, d)
                      /\ d.pc = "done"
                      /\ d.localCloses = c.localCloses + 1
                      /\ d.reg = c.reg
                      /\ d.remoteConn = "none"
                      /\ d.l2r = "none" /\ d.r2l = "none" /\ d.done = 0
           /\ UNCHANGED <<proc, mainVars, client, clientCloses, ctxDone, cancels, sigPc,
                          listener, listenerCloses, accVars, drainPc, connsClosed,
                          backlog, remoteHost>>
      ]_vars

\* C3 witness: one connection's dial has failed and it is closed, while another pair
\* is open and copying, the listener is open, nothing is cancelled and the transport
\* is open.
C3_Witness ==
    /\ \E c \in Conns : c.pc = "done" /\ c.remoteConn = "none" /\ LocalClosed(c)
    /\ \E d \in Conns : d.pc = "wait" /\ ~LocalClosed(d) /\ d.remoteConn = "open"
    /\ listener = "open" /\ ~ctxDone /\ client = "open" /\ proc = "running"

\* C4: every accepted connection has had at most one remote dial, none before it
\* registered, and every dial asked for the remoteHost startTunnel was given.
C4_AtMostOneDialSameTarget ==
    /\ \A c \in Conns : c.dials <= 1 /\ (c.pc = "register" => c.dials = 0)
    /\ dialed \subseteq {remoteHost}

\* C4 witness: several connections at once, one whose dial failed and one whose
\* dial succeeded, each dialed once.
C4_Witness ==
    /\ BagCardinality(h) >= 2
    /\ \E c \in Conns : c.pc = "done" /\ c.remoteConn = "none" /\ c.dials = 1
    /\ \E d \in Conns : d.remoteConn = "open" /\ d.dials = 1
    /\ dialed = {remoteHost}

\* A pair with a copy direction finished whose handler has not yet closed it.
PendingClose(c) == c.pc = "wait" /\ c.done > 0

\* C5: whenever a copy direction of a pair has ended, the pair is eventually closed
\* on both sides, whether or not the other direction ever ends.
C5_FirstCopyEndClosesPair ==
    (\E c \in Conns : PendingClose(c)) ~> (\A c \in Conns : ~PendingClose(c))

\* C5 witness: two pairs closed on both sides, one after only local->remote ended
\* and one after only remote->local ended, the other direction still running.
C5_Witness ==
    /\ \E c \in Conns : /\ c.pc = "done" /\ c.remoteConn = "closed" /\ LocalClosed(c)
                        /\ c.l2r = "fin" /\ c.r2l = "run"
    /\ \E d \in Conns : /\ d.pc = "done" /\ d.remoteConn = "closed" /\ LocalClosed(d)
                        /\ d.l2r = "run" /\ d.r2l = "fin"

\* C6: no goroutine ever panics.
C6_NoPanic == proc # "panicked"

\* C7: a second cancel(), a second listener.Close(), a second client.Close() and a
\* second Close() of a local connection panic nowhere and leave the context, the
\* listener, the ssh client, the registry channel and the connections as they were.
C7_SecondCloseChangesNothing ==
    [][ /\ (cancels' > cancels /\ ctxDone)
           => /\ ctxDone' /\ proc' # "panicked"
              /\ UNCHANGED <<listener, client, connsClosed, h>>
        /\ (listenerCloses' > listenerCloses /\ listener = "closed")
           => /\ listener' = "closed" /\ proc' # "panicked"
              /\ UNCHANGED <<ctxDone, client, connsClosed, h>>
        /\ (clientCloses' # clientCloses /\ client = "closed")
           => /\ client' = "closed" /\ proc' # "panicked"
              /\ UNCHANGED <<ctxDone, listener, connsClosed, h>>
        /\ (h' # h) =>
              \A c \in Conns, d \in BagToSet(h') :
                 (LocalClosed(c) /\ d.localCloses > c.localCloses /\ h' = Replace(c, d))
                 => /\ d.localCloses = c.localCloses + 1 /\ proc' # "panicked"
                    /\ UNCHANGED <<ctxDone, listener, client, connsClosed>>
      ]_vars

\* C7 witness: each of the four has been closed or cancelled twice.
C7_Witness ==
    /\ cancels = 2
    /\ listenerCloses = 2
    /\ BagCardinality(clientCloses) = 2
    /\ \E c \in Conns : c.localCloses = 2

\* C8: the step that closes the ssh client of a listening session is taken only when
\* the listener is closed and every tracked local connection is closed.
C8_TransportClosedLast ==
    [][ (client' = "closed" /\ client # "closed" /\ listener # "none")
        => /\ listener = "closed"
           /\ \A c \in Conns : Tracked(c) => LocalClosed(c)
      ]_vars

\* C9 as stated: client.Close() is called at most once in a run.
C9_ClosedAtMostOnce == BagCardinality(clientCloses) <= 1

\* C9 amended: client.Close() is called only by the signal goroutine and by
\* runTunnel's deferred call, at most once by each, and the client is closed exactly
\* when one of them has called it.
C9_ClosedOnlyByController ==
    /\ BagToSet(clientCloses) \subseteq {"signal", "main"}
    /\ \A g \in BagToSet(clientCloses) : CopiesIn(g, clientCloses) = 1
    /\ (client = "closed") <=> (clientCloses # EmptyBag)

\* C9 witness: both have called it, with connections accepted and handled meanwhile.
C9_Witness ==
    /\ BagCardinality(clientCloses) = 2
    /\ \E c \in Conns : c.pc = "done"

\* C10: once the transport of a listening session has failed, the listener is
\* eventually closed without waiting for a signal: it is closed, or else a signal has
\* arrived in the meantime.
C10_TransportFailureShutsDown ==
    (client = "failed" /\ listener = "open" /\ sigPc = "wait")
        ~> (listener = "closed" \/ sigPc # "wait")

\* C11: when runTunnel has returned and the process has ended, listener.Close() has
\* been called, every tracked local connection has had Close() called on it, and
\* client.Close() has been called.
C11_ClosedOnlyAfterTeardown ==
    proc = "exited" =>
        /\ listenerCloses > 0
        /\ \A c \in Conns : Tracked(c) => LocalClosed(c)
        /\ clientCloses # EmptyBag

\* The accept goroutine is in its for loop.
InAcceptLoop == accPc = "accept"

\* C12: whenever the accept goroutine is in its loop on an open listener with a
\* connection waiting, it can accept it, whatever the handlers of earlier
\* connections are doing; and the step that accepts a connection only starts a new
\* handler: the loop is back at Accept and no earlier record has moved.
C12_AcceptNeverWaitsForPairs ==
    /\ []( (proc = "running" /\ InAcceptLoop /\ listener = "open" /\ backlog > 0)
             => ENABLED acceptLoop_accept )
    /\ [][ BagCardinality(h') > BagCardinality(h)
             => /\ InAcceptLoop /\ accPc' = "accept"
                /\ h' = h (+) SetToBag({NewConn}) ]_vars

\* C12 witness: the registry is full, some of its pairs still copying in both
\* directions, a handler is blocked sending on it, and one more connection has been
\* accepted behind that handler.
C12_Witness ==
    /\ RegistryLen = RegistryCap
    /\ \E c \in Conns : c.pc = "wait" /\ c.l2r = "run" /\ c.r2l = "run"
    /\ NewConn \in Conns /\ CopiesIn(NewConn, h) = 2

\* A step in which listener.Accept() returned an error: the loop either left or
\* logged.
AcceptFailed == InAcceptLoop /\ (accPc' # accPc \/ acceptErrs' # acceptErrs)

\* C13: an Accept error makes the loop return without logging exactly when the
\* context is cancelled, and otherwise log and stay in the loop; the loop is never
\* left before cancellation; and once the context is cancelled the accept goroutine
\* eventually finishes by its own steps and those of the cancellation goroutine,
\* without runTunnel being made to return (or the process has ended first).
C13_AcceptLoopStopsOnCancel ==
    /\ [][ AcceptFailed =>
              IF ctxDone
              THEN accPc' = "closeConns" /\ acceptErrs' = acceptErrs
              ELSE accPc' = "accept" /\ acceptErrs' = acceptErrs + 1 ]_vars
    /\ [](~ctxDone => accPc \in {"none", "accept"})
    /\ (ctxDone /\ accPc # "none") ~> (accPc = "done" \/ proc # "running")

\* C13 witness: an Accept error was logged and the loop went on to accept a
\* connection; after cancellation the accept goroutine has finished, the process
\* still running.
C13_Witness ==
    /\ acceptErrs > 0 /\ h # EmptyBag
    /\ ctxDone /\ accPc = "done" /\ proc = "running"

\* runTunnel is past the net.Listen of startTunnel: in the readiness probe, or
\* startTunnel has returned nil.
PastListen ==
    mainPc \in {"probe", "waitCtx", "deferCancel", "deferClose", "returned"}

\* log.Fatalf("Failed to start SSH tunnel") has run: the process ended at the call
\* of startTunnel, with the ssh client dialed.
BindFailed == proc = "fatal" /\ mainPc = "listen"

\* C14: startTunnel goes on (to the probe, and runTunnel to "tunnel established")
\* only with a bound listener, and the accept and cancellation goroutines exist
\* exactly when the bind succeeded; after a failed bind there is no listener, no
\* goroutine of startTunnel, no probe and no connection, the step that failed
\* changed nothing but the process, and nothing runs afterwards (no second bind).
C14_BindFailureIsFatal ==
    /\ [](PastListen => listener # "none")
    /\ []((accPc # "none" <=> listener # "none") /\ (drainPc # "none" <=> listener # "none"))
    /\ [](BindFailed =>
            /\ listener = "none" /\ accPc = "none" /\ drainPc = "none"
            /\ probes = 0 /\ backlog = 0 /\ h = EmptyBag)
    /\ [][ (mainPc = "listen" /\ proc' # "running")
             => /\ proc' = "fatal"
                /\ UNCHANGED <<mainVars, remoteHost, client, clientCloses, ctxDone, cancels,
                               sigPc, listener, listenerCloses, accVars, drainPc,
                               connsClosed, connVars>> ]_vars
    /\ [][proc = "running"]_vars

\* C14 witness: the bind failed after the ssh client was dialed and the signal
\* goroutine started.
C14_Witness ==
    /\ BindFailed
    /\ client = "open" /\ sigPc = "wait" /\ listener = "none"

\* runTunnel is inside waitForTunnelReady.
InProbe == mainPc = "probe"

\* A step in which the probe calls net.DialTimeout: a failed attempt is counted, or
\* the probe leaves having connected.
ProbeAttempt ==
    InProbe /\ (probes' = probes + 1 \/ (mainPc' # mainPc /\ backlog' = backlog + 1))

\* C15: the probe dials only while fewer than 5 attempts have failed, a counted
\* (failed) attempt leaves no connection behind, the probe is left only towards
\* "tunnel established" with the process running (never with an error), and it is
\* always left: once the listener is bound, runTunnel gets to <-ctx.Done() unless
\* the process has ended first.
C15_ProbeBoundedNonFatal ==
    /\ [](probes <= ProbeAttempts)
    /\ [][ProbeAttempt => probes < ProbeAttempts]_vars
    /\ [][(InProbe /\ probes' = probes + 1) => (backlog' = backlog /\ mainPc' = mainPc)]_vars
    /\ [][(InProbe /\ mainPc' # mainPc) => (mainPc' = "waitCtx" /\ proc' = "running")]_vars
    /\ [][(InProbe /\ proc' # proc) => proc' = "panicked"]_vars
    /\ InProbe ~> (~InProbe \/ proc # "running")
    /\ (listener # "none") ~> (mainPc \notin {"listen", "probe"} \/ proc # "running")

\* C15 witness: the tunnel is reported established although no attempt of the probe
\* connected: nothing was ever queued on the open listener.
C15_Witness ==
    /\ mainPc = "waitCtx" /\ proc = "running"
    /\ listener = "open" /\ ~ctxDone
    /\ backlog = 0 /\ h = EmptyBag

IsPrefix(s, t) == Len(s) <= Len(t) /\ s = SubSeq(t, 1, Len(s))

\* Neither copy of pair c has ended and the handler still waits on done.
BothCopying(c) == c.pc = "wait" /\ c.l2r = "run" /\ c.r2l = "run"

\* The connection at the other side of the pair.
OtherEnd(e) == IF e = "local" THEN "remote" ELSE "local"

\* The direction that carries what the peer of connection e sends.
DirFrom(e) == IF e = "local" THEN "l2r" ELSE "r2l"

\* C16: for each side of a pair, what the program has written to the other
\* connection is a prefix of what this side's peer has sent, and what was sent is
\* exactly what was written there, then what io.Copy holds, then what is still
\* unread (no byte lost, repeated or out of order); and while neither copy ends,
\* every byte a peer has sent is eventually written to the other connection.
C16_CopyIsLossless ==
    /\ [](\A c \in Conns, e \in Ends :
            /\ IsPrefix(c.written[OtherEnd(e)], c.sent[e])
            /\ c.sent[e] = c.written[OtherEnd(e)] \o c.buf[DirFrom(e)] \o c.unread[e])
    /\ \A e \in Ends, n \in 1..MaxBytes :
          (\E c \in Conns : BothCopying(c) /\ Len(c.sent[e]) >= n)
            ~> (\E c \in Conns : Len(c.written[OtherEnd(e)]) >= n \/ ~BothCopying(c))

\* C16 witness: both peers have sent MaxBytes bytes and each stream has arrived
\* whole at the other connection, both copies still running.
C16_Witness ==
    \E c \in Conns :
        /\ BothCopying(c)
        /\ \A e \in Ends : Len(c.sent[e]) = MaxBytes
        /\ c.written["remote"] = c.sent["local"]
        /\ c.written["local"] = c.sent["remote"]

\* C17: when the cancellation goroutine has drained the registry to its end, every
\* accepted connection has been in the registry and has been closed: none is left
\* that neither the drain nor its own handler closes.
C17_NoneForgotten ==
    drainPc = "done" => \A c \in Conns : Tracked(c) /\ LocalClosed(c)

\* Handlers of bag b that have got past conns <- localConn.
NumPastRegister(b) == CountIn(b, {c \in BagToSet(b) : c.pc # "register"})

\* len(conns) in bag b.
QueuedIn(b) == CountIn(b, {c \in BagToSet(b) : IsQueued(c)})

\* C18: while the context is not cancelled, a handler is past its registration
\* (dialing, copying or finished) only with its connection in the registry, the
\* registry never holds more than 10 connections, at most 10 handlers have got
\* past registration, and no step makes the registry shorter.
C18_RegistryOnlyGrows ==
    /\ [](~ctxDone =>
            /\ \A c \in Conns : (c.pc # "register" \/ c.dials > 0) => IsQueued(c)
            /\ RegistryLen <= RegistryCap
            /\ NumPastRegister(h) <= RegistryCap)
    /\ [][~ctxDone' => QueuedIn(h') >= QueuedIn(h)]_vars

\* C18 witness: the registry is full, one of its entries is a pair already closed
\* on both sides, another a connection whose dial failed, and two handlers wait to
\* register.
C18_Witness ==
    /\ ~ctxDone /\ RegistryLen = RegistryCap
    /\ \E c \in Conns : c.pc = "done" /\ IsQueued(c) /\ c.remoteConn = "closed"
    /\ \E c \in Conns : c.pc = "done" /\ IsQueued(c) /\ c.remoteConn = "none"
    /\ CopiesIn(NewConn, h) = 2

\* Values sent on done by the copies of pair c so far.
DoneSends(c) == Cardinality({dir \in CopyDirs : c[dir] = "fin"})

\* Values the handler of pair c has received from done.
DoneReceives(c) == IF c.pc = "done" /\ c.remoteConn # "none" THEN 1 ELSE 0

\* A pair the handler has returned from with a copyData goroutine still alive.
CopyOutlivesHandler(c) == c.pc = "done" /\ \E dir \in CopyDirs : c[dir] = "run"

\* C19: done never holds more than its 2 entries, it holds what was sent less what
\* the handler received, a copyData goroutine that is still running can always
\* complete its send, and once the handler has returned every copyData goroutine
\* of the pair eventually ends.
C19_CopiesEndAfterReturn ==
    /\ [](\A c \in Conns :
            /\ c.done <= DoneCap
            /\ c.done + DoneReceives(c) = DoneSends(c)
            /\ \A dir \in CopyDirs : c[dir] = "run" => ENABLED copyData(c, dir))
    /\ (\E c \in Conns : CopyOutlivesHandler(c)) ~> (\A c \in Conns : ~CopyOutlivesHandler(c))

\* C19 witness: the handler returned on the first signal, the other copy has ended
\* too, and its signal sits in done, which nobody receives from any more.
C19_Witness ==
    \E c \in Conns :
        /\ c.pc = "done" /\ c.remoteConn = "closed" /\ LocalClosed(c)
        /\ c.l2r = "fin" /\ c.r2l = "fin" /\ c.done = 1

====
